---------------------------- MODULE Spec2Model ----------------------------
(***************************************************************************)
(* A model of keygen (xsznix/keygen): the keyboard layout and its swaps    *)
(* (layout.rs), the permutation generator LayoutPermutations (layout.rs),  *)
(* the annealing acceptance rule (annealing.rs), the simulate and refine   *)
(* drivers with their best-layouts list (simulator.rs), and the corpus     *)
(* preparation and the scoring of quartads (penalty.rs).                   *)
(*                                                                         *)
(* Positions are the indices 0..32 of KeyMap.  A Layer is a function from  *)
(* positions to characters (one-character strings; NUL stands for '\0'),   *)
(* a Layout is the pair <<lower, upper>> of layout.rs's Layout(Layer,      *)
(* Layer).                                                                 *)
(***************************************************************************)
EXTENDS Integers, Sequences, FiniteSets, TLC

VARIABLES
    \* LayoutPermutations (layout.rs:37-42) and what its next() returned
    orig_layout,      \* LayoutPermutations.orig_layout
    swap_idx,         \* LayoutPermutations.swap_idx, a 0-based Vec<usize>
    started,          \* LayoutPermutations.started
    perm_ret,         \* result of the last next(): "NotCalled", "Some", "None", "Panic"
    perm_layout,      \* the layout of the last Some(layout)
    perm_count,       \* number of Some(layout) results so far
    perm_seen,        \* the layouts returned so far (recorded by the observing specifications)
    \* the layout being swapped and shuffled (simulate's curr_layout)
    command,          \* what the run exercises: "permute", "shuffle", "swap", "track", "accept", "run",
                      \* "prepare", "score", "refine", "offers"
    curr_layout,      \* the Layout that shuffle and swap mutate
    start_layout,     \* curr_layout as it was at the start
    shuffle_log,      \* the (i, j) of each swap of the last shuffle call, in order
    shuffle_times,    \* the argument of the last shuffle call
    swaps_total,      \* swaps applied by all shuffle calls so far
    swap_i,           \* the two positions handed to swap
    swap_j,
    swap_n,           \* how often swap(swap_i, swap_j) was applied to curr_layout
    \* the best-layouts list of simulate and refine (simulator.rs:51, 118)
    best_layouts,     \* LinkedList<BestLayoutsEntry>, front first
    top_layouts,      \* the capacity the caller passes
    \* one call of annealing::accept_transition
    acc_de,           \* its argument de
    acc_i,            \* its argument i
    acc_r,            \* the value of thread_rng().next_f64() it drew last
    acc_drawn,        \* whether the call drew from thread_rng()
    acc_called,       \* whether it has been called
    acc_ret,          \* what it returned
    \* run and simulate (main.rs:103-113, simulator.rs:34-97)
    quartads,         \* the QuartadList of the corpus
    corpus_len,       \* len, the length of the corpus
    num_swaps,        \* the num_swaps argument
    accepted_layout,  \* simulate's accepted_layout
    accepted_penalty, \* simulate's accepted_penalty
    scaled_penalty,   \* the scaled penalty of curr_layout in the last iteration
    sim_range,        \* the Range<usize> the for loop iterates: [start, end)
    sim_i,            \* the loop variable i of the last iteration, 0 before the first
    sim_count,        \* iterations made by this invocation of simulate
    offered,          \* the entries the last iteration passed to list_insert_ordered
    \* one call of penalty::prepare_quartad_list (penalty.rs:128-153)
    prep_string,      \* its argument string, a sequence of chars
    prep_ref,         \* the layout whose position map is its argument position_map
    prep_i,           \* the chars the for loop has consumed
    prep_range,       \* its local range, in byte offsets: [start, end)
    prep_counts,      \* its local quartads
    prep_ret,         \* "Running", "Done" (it returned) or "Panic"
    \* one call of penalty::calculate_penalty in detailed mode (penalty.rs:155-183)
    score_layout,     \* its argument layout
    score_todo,       \* the keys of quartads its for loop has not visited yet
    score_total,      \* its local total
    score_result,     \* result[k].total for the 13 penalties, k = 0 .. 12
    score_last,       \* the last (string, count) visited and what penalize added for it
    score_ret,        \* what the call returned, <<>> before it returns
    \* simulator::refine (simulator.rs:99-163)
    ref_init_layout,  \* its argument init_layout
    curr_penalty,     \* its local curr_penalty
    ref_round,        \* the rounds of its loop that have ended
    ref_state,        \* "Idle", "Enumerating", "Broke" (the loop ended by break) or "Panic"
    \* every entry passed to list_insert_ordered since the list was made, in order
    offer_log

permVars == <<orig_layout, swap_idx, started, perm_ret, perm_layout, perm_count, perm_seen>>

layoutVars == <<curr_layout, start_layout, shuffle_log, shuffle_times, swaps_total,
                swap_i, swap_j, swap_n>>

trackerVars == <<best_layouts, top_layouts>>

acceptVars == <<acc_de, acc_i, acc_r, acc_drawn, acc_called, acc_ret>>

simVars == <<quartads, corpus_len, num_swaps, accepted_layout, accepted_penalty,
             scaled_penalty, sim_range, sim_i, sim_count, offered>>

prepVars == <<prep_string, prep_ref, prep_i, prep_range, prep_counts, prep_ret>>

scoreVars == <<score_layout, score_todo, score_total, score_result, score_last,
               score_ret>>

refineVars == <<ref_init_layout, curr_penalty, ref_round, ref_state>>

\* The state of the calls modelled apart from the layout, the generator, the
\* list, accept_transition and simulate.
callVars == <<prepVars, scoreVars, refineVars, offer_log>>

vars == <<command, permVars, layoutVars, trackerVars, acceptVars, simVars, callVars>>

(***************************************************************************)
(* Bounds of the model.                                                    *)
(***************************************************************************)
MaxDepth == 2

\* Swaps applied by all shuffle calls of one run.
MaxSwaps == 2

\* Random draws are taken from 0 .. MaxRand and the values of EdgeDraws.
MaxRand == 1

\* Applications of swap(i, j) to one layout.
MaxApply == 2

\* The num_swaps argument of the simulate runs.
SimSwaps == 2

\* The capacities of the best-layouts list run from 0 to MaxTop.
MaxTop == 3

\* The scaled penalties offered to the list run from 0 to MaxScore.
MaxScore == 2

(***************************************************************************)
(* layout.rs: statics.                                                     *)
(***************************************************************************)
NumPositions == 33

Positions == 0 .. (NumPositions - 1)

NUL == "NUL"

\* KeyMap<T>([T; 33]) built from the 33 elements of a tuple, position p at index p + 1.
KeyMap(t) == [p \in Positions |-> t[p + 1]]

INIT_LAYOUT ==
    << KeyMap(<<"q", "u", "p", "g", "/",   "z", "l", "w", "y", "'", "=",
                "a", "r", "n", "s", "d",   "f", "h", "t", "i", "o", "-",
                "j", "k", "v", "c", ";",   "x", "m", "b", ",", ".",
                "e">>),
       KeyMap(<<"Q", "U", "P", "G", "?",   "Z", "L", "W", "Y", "\"", "+",
                "A", "R", "N", "S", "D",   "F", "H", "T", "I", "O", "_",
                "J", "K", "V", "C", ":",   "X", "M", "B", "<", ">",
                "E">>) >>

QWERTY_LAYOUT ==
    << KeyMap(<<"q", "w", "e", "r", "t",   "y", "u", "i", "o", "p", "-",
                "a", "s", "d", "f", "g",   "h", "j", "k", "l", ";", "'",
                "z", "x", "c", "v", "b",   "n", "m", ",", ".", "/",
                NUL>>),
       KeyMap(<<"Q", "W", "E", "R", "T",   "Y", "U", "I", "O", "P", "_",
                "A", "S", "D", "F", "G",   "H", "J", "K", "L", ":", "\"",
                "Z", "X", "C", "V", "B",   "N", "M", "<", ">", "?",
                NUL>>) >>

LAYOUT_MASK_NUM_SWAPPABLE == 31

\* LAYOUT_MASK_SWAP_OFFSETS[k], k in 0..30: ten 0s, then twenty-one 1s.
LAYOUT_MASK_SWAP_OFFSETS ==
    [k \in 0 .. 30 |->
        <<0, 0, 0, 0, 0,    0, 0, 0, 0, 0,
          1, 1, 1, 1, 1,    1, 1, 1, 1, 1, 1,
          1, 1, 1, 1, 1,    1, 1, 1, 1, 1>>[k + 1]]

\* The commented-out LAYOUT_MASK: every position but 10 and 32.
LAYOUT_MASK == [p \in Positions |-> p \notin {10, 32}]

Swappable == {p \in Positions : LAYOUT_MASK[p]}

(***************************************************************************)
(* layout.rs: Layer::swap and the swap of both layers.                     *)
(***************************************************************************)
\* A swap that loses temp: layer[j] keeps its old value.
LayerSwapNoTemp(layer, i, j) == [layer EXCEPT ![i] = layer[j]]

\* let temp = layer[i]; layer[i] = layer[j]; layer[j] = temp;
LayerSwap(layer, i, j) ==
    LET temp == layer[i]
        l1   == [layer EXCEPT ![i] = layer[j]]
    IN  [l1 EXCEPT ![j] = temp]

\* A swap of the lower layer alone.
LayoutSwapLowerOnly(layout, i, j) ==
    << LayerSwap(layout[1], i, j), layout[2] >>

\* lower.swap(i, j); upper.swap(i, j);
LayoutSwap(layout, i, j) ==
    << LayerSwap(layout[1], i, j), LayerSwap(layout[2], i, j) >>


(***************************************************************************)
(* layout.rs: LayoutPermutations.                                          *)
(***************************************************************************)
SetMin(S) == CHOOSE x \in S : \A y \in S : x <= y

\* LayoutPermutations::new: 2 * depth zeros, not started.
NewSwapIdx(depth) == [k \in 1 .. (depth * 2) |-> 0]

\* The slots of the for loop of next() whose entry can be incremented; slot i
\* of the code is swap_idx[i + 1] here.
IncrementableOffByOne(sidx) ==
    {i \in 0 .. (Len(sidx) - 1) : sidx[i + 1] + 1 <= LAYOUT_MASK_NUM_SWAPPABLE - i}

Incrementable(sidx) ==
    {i \in 0 .. (Len(sidx) - 1) : sidx[i + 1] + 1 < LAYOUT_MASK_NUM_SWAPPABLE - i}

\* The first half of next(): some, idx, val and swap_idx after the increment.
Advance(sidx, st) ==
    IF st
    THEN LET can == Incrementable(sidx)
         IN  IF can = {}
             THEN [some |-> FALSE, idx |-> 0, val |-> 0, swap_idx |-> sidx]
             ELSE LET i == SetMin(can)
                  IN  [some |-> TRUE, idx |-> i, val |-> sidx[i + 1] + 1,
                       swap_idx |-> [sidx EXCEPT ![i + 1] = sidx[i + 1] + 1]]
    ELSE [some |-> TRUE, idx |-> 1, val |-> 0, swap_idx |-> sidx]

\* for i in 0..idx { self.swap_idx[i] = val + idx - i; } indexes past the end
\* of the Vec (a panic) when idx exceeds its length.
ResetPanics(a) == a.some /\ a.idx > Len(a.swap_idx)

ResetLowerNoOffset(a) ==
    [k \in 1 .. Len(a.swap_idx) |->
        IF k - 1 < a.idx THEN a.val ELSE a.swap_idx[k]]

ResetLower(a) ==
    [k \in 1 .. Len(a.swap_idx) |->
        IF k - 1 < a.idx THEN a.val + a.idx - (k - 1) ELSE a.swap_idx[k]]

\* LAYOUT_MASK_SWAP_OFFSETS[e] is out of range (a panic) for e > 30.
OffsetPanics(sidx) == \E k \in 1 .. Len(sidx) : sidx[k] \notin DOMAIN LAYOUT_MASK_SWAP_OFFSETS

\* The while loop of next(): the pairs (swap_idx[i], swap_idx[i + 1]), i = 0, 2, ...
RECURSIVE ApplySwaps(_, _, _)
ApplySwaps(layout, sidx, i) ==
    IF i < Len(sidx)
    THEN LET swap_left  == sidx[i + 1] + LAYOUT_MASK_SWAP_OFFSETS[sidx[i + 1]]
             swap_right == sidx[i + 2] + LAYOUT_MASK_SWAP_OFFSETS[sidx[i + 2]]
         IN  ApplySwaps(LayoutSwap(layout, swap_left, swap_right), sidx, i + 2)
    ELSE layout

NoLayout == <<>>

\* One call of LayoutPermutations::next.
PermNext ==
    /\ command = "permute"
    /\ perm_ret # "Panic"
    /\ started' = TRUE
    /\ LET a == Advance(swap_idx, started)
       IN  IF ~a.some
           THEN /\ swap_idx' = a.swap_idx
                /\ perm_ret' = "None"
                /\ perm_layout' = NoLayout
                /\ perm_count' = perm_count
           ELSE IF ResetPanics(a)
           THEN /\ swap_idx' = a.swap_idx
                /\ perm_ret' = "Panic"
                /\ perm_layout' = NoLayout
                /\ perm_count' = perm_count
           ELSE /\ swap_idx' = ResetLower(a)
                /\ IF OffsetPanics(swap_idx')
                   THEN /\ perm_ret' = "Panic"
                        /\ perm_layout' = NoLayout
                        /\ perm_count' = perm_count
                   ELSE /\ perm_ret' = "Some"
                        /\ perm_layout' = ApplySwaps(orig_layout, swap_idx', 0)
                        /\ perm_count' = perm_count + 1
    /\ UNCHANGED <<orig_layout, command, layoutVars, trackerVars, acceptVars, simVars, callVars>>

\* No layout is being shuffled or swapped.
LayoutIdle ==
    /\ curr_layout = NoLayout
    /\ start_layout = NoLayout
    /\ shuffle_log = <<>>
    /\ shuffle_times = 0
    /\ swaps_total = 0
    /\ swap_i = 0
    /\ swap_j = 0
    /\ swap_n = 0

\* No generator has been made.
PermIdle ==
    /\ orig_layout = NoLayout
    /\ swap_idx = <<>>
    /\ started = FALSE
    /\ perm_ret = "NotCalled"
    /\ perm_layout = NoLayout
    /\ perm_count = 0
    /\ perm_seen = {}

\* No best-layouts list is kept.
TrackerIdle ==
    /\ best_layouts = <<>>
    /\ top_layouts = 0

\* simulate is not running.
SimIdle ==
    /\ quartads = <<>>
    /\ corpus_len = 0
    /\ num_swaps = 0
    /\ accepted_layout = NoLayout
    /\ accepted_penalty = 0
    /\ scaled_penalty = 0
    /\ sim_range = [start |-> 0, end |-> 0]
    /\ sim_i = 0
    /\ sim_count = 0
    /\ offered = <<>>

\* accept_transition is not being exercised.
AcceptIdle ==
    /\ acc_de = 0
    /\ acc_i = 0
    /\ acc_r = 0
    /\ acc_drawn = FALSE
    /\ acc_called = FALSE
    /\ acc_ret = FALSE

\* prepare_quartad_list is not being exercised.
PrepIdle ==
    /\ prep_string = <<>>
    /\ prep_ref = NoLayout
    /\ prep_i = 0
    /\ prep_range = [start |-> 0, end |-> 0]
    /\ prep_counts = <<>>
    /\ prep_ret = "Done"

\* No detailed calculate_penalty is being exercised.
ScoreIdle ==
    /\ score_layout = NoLayout
    /\ score_todo = {}
    /\ score_total = 0
    /\ score_result = <<>>
    /\ score_last = <<>>
    /\ score_ret = <<>>

\* refine is not running.
RefineIdle ==
    /\ ref_init_layout = NoLayout
    /\ curr_penalty = 0
    /\ ref_round = 0
    /\ ref_state = "Idle"

\* None of the calls of callVars is being exercised.
CallsIdle ==
    /\ PrepIdle
    /\ ScoreIdle
    /\ RefineIdle
    /\ offer_log = <<>>

PermInit(depths) ==
    /\ command = "permute"
    /\ LayoutIdle
    /\ TrackerIdle
    /\ AcceptIdle
    /\ SimIdle
    /\ CallsIdle
    /\ orig_layout = INIT_LAYOUT
    /\ swap_idx \in {NewSwapIdx(d) : d \in depths}
    /\ started = FALSE
    /\ perm_ret = "NotCalled"
    /\ perm_layout = NoLayout
    /\ perm_count = 0
    /\ perm_seen = {}

\* The depth the generator was made with.
Depth == Len(swap_idx) \div 2

(***************************************************************************)
(* layout.rs: Layout::shuffle and Layout::shuffle_position.                *)
(***************************************************************************)
\* Values of random::<usize>() around the edges of the code's arithmetic: the
\* last index without an offset and the first with one, the largest residues
\* of % 30 and % 31, and the first value that wraps.
EdgeDraws == {9, 10, 29, 30, 31}

RandVals == (0 .. MaxRand) \cup EdgeDraws

\* shuffle_position without the step over i: j = i is possible.
ShufflePositionNoSkip(r1, r2) ==
    LET i0 == r1 % LAYOUT_MASK_NUM_SWAPPABLE
        j0 == r2 % (LAYOUT_MASK_NUM_SWAPPABLE - 1)
    IN  << i0 + LAYOUT_MASK_SWAP_OFFSETS[i0], j0 + LAYOUT_MASK_SWAP_OFFSETS[j0] >>

\* shuffle_position with r1, r2 the two values of random::<usize>().
ShufflePosition(r1, r2) ==
    LET i0 == r1 % LAYOUT_MASK_NUM_SWAPPABLE
        j0 == r2 % (LAYOUT_MASK_NUM_SWAPPABLE - 1)
        j1 == IF j0 >= i0 THEN j0 + 1 ELSE j0
    IN  << i0 + LAYOUT_MASK_SWAP_OFFSETS[i0], j1 + LAYOUT_MASK_SWAP_OFFSETS[j1] >>

\* Layout::shuffle(times): draws[k] holds the two random values of round k.
RECURSIVE Shuffle(_, _)
Shuffle(layout, draws) ==
    IF draws = <<>>
    THEN layout
    ELSE LET ij == ShufflePosition(Head(draws)[1], Head(draws)[2])
         IN  Shuffle(LayoutSwap(layout, ij[1], ij[2]), Tail(draws))

\* The positions shuffle swaps, round by round.
ShufflePositions(draws) ==
    [k \in 1 .. Len(draws) |-> ShufflePosition(draws[k][1], draws[k][2])]

\* One call curr_layout.shuffle(times).
ShuffleCall ==
    /\ command = "shuffle"
    /\ \E times \in 0 .. (MaxSwaps - swaps_total) :
         \E draws \in [1 .. times -> RandVals \X RandVals] :
            /\ curr_layout' = Shuffle(curr_layout, draws)
            /\ shuffle_log' = ShufflePositions(draws)
            /\ shuffle_times' = times
            /\ swaps_total' = swaps_total + times
    /\ UNCHANGED <<command, permVars, start_layout, swap_i, swap_j, swap_n,
                   trackerVars, acceptVars, simVars, callVars>>

ShuffleInit ==
    /\ command = "shuffle"
    /\ PermIdle
    /\ curr_layout = INIT_LAYOUT
    /\ start_layout = INIT_LAYOUT
    /\ shuffle_log = <<>>
    /\ shuffle_times = 0
    /\ swaps_total = 0
    /\ swap_i = 0
    /\ swap_j = 0
    /\ swap_n = 0
    /\ TrackerIdle
    /\ AcceptIdle
    /\ SimIdle
    /\ CallsIdle

(***************************************************************************)
(* swap(i, j) on both layers, applied repeatedly to one layout with the    *)
(* same two positions.                                                     *)
(***************************************************************************)
SwapApply ==
    /\ command = "swap"
    /\ swap_n < MaxApply
    /\ curr_layout' = LayoutSwap(curr_layout, swap_i, swap_j)
    /\ swap_n' = swap_n + 1
    /\ UNCHANGED <<command, permVars, start_layout, shuffle_log, shuffle_times,
                   swaps_total, swap_i, swap_j, trackerVars, acceptVars, simVars, callVars>>

SwapInit ==
    /\ command = "swap"
    /\ PermIdle
    /\ TrackerIdle
    /\ AcceptIdle
    /\ SimIdle
    /\ CallsIdle
    /\ curr_layout \in {INIT_LAYOUT, QWERTY_LAYOUT}
    /\ start_layout = curr_layout
    /\ shuffle_log = <<>>
    /\ shuffle_times = 0
    /\ swaps_total = 0
    /\ swap_i \in Positions
    /\ swap_j \in Positions
    /\ swap_n = 0

(***************************************************************************)
(* The generator run to exhaustion by its caller (the for loop of refine), *)
(* for every depth up to MaxDepth.                                         *)
(***************************************************************************)
InitPerm == PermInit(0 .. MaxDepth)

NextPerm == PermNext /\ UNCHANGED perm_seen

SpecPerm == InitPerm /\ [][NextPerm]_vars

(***************************************************************************)
(* The depth-1 generator, with the layouts it returned kept in perm_seen.  *)
(***************************************************************************)
InitPermSeen == PermInit({1})

NextPermSeen ==
    /\ PermNext
    /\ perm_seen' = IF perm_ret' = "Some" THEN perm_seen \cup {perm_layout'} ELSE perm_seen

SpecPermSeen == InitPermSeen /\ [][NextPermSeen]_vars

(***************************************************************************)
(* Layouts under shuffle calls and under repeated swaps.                   *)
(***************************************************************************)
Init == ShuffleInit \/ SwapInit

Next == ShuffleCall \/ SwapApply

Spec == Init /\ [][Next]_vars

(***************************************************************************)
(* Every way the program rearranges a layout: the shuffle calls of         *)
(* simulate, and the generator of refine making one swap and two swaps     *)
(* per layout.                                                             *)
(***************************************************************************)
PairDepths == {1, 2}

InitPairs == ShuffleInit \/ PermInit(PairDepths)

NextPairs == ShuffleCall \/ NextPerm

SpecPairs == InitPairs /\ [][NextPairs]_vars

(***************************************************************************)
(* simulator.rs: the best-layouts list.  An entry is a BestLayoutsEntry    *)
(* without its penalties vector: [layout, total_penalty, scaled_penalty].  *)
(***************************************************************************)
\* The f64 that is not a number (0.0 / 0.0, the scaled penalty of an empty
\* corpus), encoded as an integer outside the range of every modelled score.
NaN == -(2^30)

\* f64::partial_cmp: no ordering when either side is NaN.
PartialCmp(a, b) ==
    IF a = NaN \/ b = NaN THEN "None"
    ELSE IF a < b THEN "Less"
    ELSE IF a > b THEN "Greater"
    ELSE "Equal"

\* The f64 comparisons <, <= and >=: false when either side is NaN.
FLt(a, b) == PartialCmp(a, b) = "Less"

FLe(a, b) == PartialCmp(a, b) \in {"Less", "Equal"}

FGe(a, b) == PartialCmp(a, b) \in {"Greater", "Equal"}

\* The f64 difference a - b: NaN when either side is NaN.
FSub(a, b) == IF a = NaN \/ b = NaN THEN NaN ELSE a - b

\* BestLayoutsEntry::cmp: partial_cmp of the scaled penalties, Equal when
\* there is no ordering.
EntryCmp(entry, other) ==
    LET ord == PartialCmp(entry.scaled_penalty, other.scaled_penalty)
    IN  IF ord = "None" THEN "Equal" ELSE ord

\* The cursor of a list_insert_ordered that stops at the first element the
\* entry is not Greater than.
RECURSIVE InsertCursorBeforeEqual(_, _, _)
InsertCursorBeforeEqual(list, entry, k) ==
    IF k <= Len(list) /\ EntryCmp(entry, list[k]) = "Greater"
    THEN InsertCursorBeforeEqual(list, entry, k + 1)
    ELSE k

\* The loop of list_insert_ordered: the cursor moves on from index k while there
\* is a next element and the entry is not Less than it.
RECURSIVE InsertCursor(_, _, _)
InsertCursor(list, entry, k) ==
    IF k <= Len(list) /\ EntryCmp(entry, list[k]) # "Less"
    THEN InsertCursor(list, entry, k + 1)
    ELSE k

\* A list_insert_ordered that pushes to the front without looking.
ListInsertFront(list, entry) == <<entry>> \o list

\* list_insert_ordered: insert_next at the cursor.
ListInsertOrdered(list, entry) ==
    LET k == InsertCursor(list, entry, 1)
    IN  SubSeq(list, 1, k - 1) \o <<entry>> \o SubSeq(list, k, Len(list))

\* A truncation loop that pops the front.
RECURSIVE LimitLengthFront(_, _)
LimitLengthFront(list, top) ==
    IF Len(list) > top
    THEN LimitLengthFront(Tail(list), top)
    ELSE list

\* while best_layouts.len() > top_layouts { best_layouts.pop_back(); }
RECURSIVE LimitLength(_, _)
LimitLength(list, top) ==
    IF Len(list) > top
    THEN LimitLength(SubSeq(list, 1, Len(list) - 1), top)
    ELSE list

\* An offer: list_insert_ordered, then the truncation loop.
OfferEntry(list, entry, top) == LimitLength(ListInsertOrdered(list, entry), top)

\* The entries offered: either layout with any scaled penalty of 0 .. MaxScore
\* or NaN.
OfferedEntries ==
    {[layout |-> l, total_penalty |-> t, scaled_penalty |-> t] :
        l \in {INIT_LAYOUT, QWERTY_LAYOUT}, t \in (0 .. MaxScore) \cup {NaN}}

\* One offer of an entry to the list.
Offer ==
    /\ command = "track"
    /\ \E entry \in OfferedEntries :
          best_layouts' = OfferEntry(best_layouts, entry, top_layouts)
    /\ UNCHANGED <<command, permVars, layoutVars, top_layouts, acceptVars, simVars, callVars>>

InitTracker ==
    /\ command = "track"
    /\ PermIdle
    /\ LayoutIdle
    /\ AcceptIdle
    /\ SimIdle
    /\ CallsIdle
    /\ best_layouts = <<>>
    /\ top_layouts \in 0 .. MaxTop

NextTracker == Offer

SpecTracker == InitTracker /\ [][NextTracker]_vars

(***************************************************************************)
(* annealing.rs.  An f64 is modelled in fixed point: the integer x stands  *)
(* for x / ONE.  Products and quotients are split so that no intermediate  *)
(* value leaves 32 bits.                                                   *)
(***************************************************************************)
ONE == 10^6

N == 10000

T0 == (15 * ONE) \div 10

K == 10 * ONE

P0 == ONE

\* const KN: f64 = K / (N as f64)
KN == K \div N

\* a * b for 0 <= a <= 2 * ONE and 0 <= b <= ONE.
FMul(a, b) ==
    LET bh == b \div 1000
        bl == b % 1000
    IN  (a * bh + (a * bl) \div 1000) \div 1000

\* The largest quotient kept: exp(-FDivMax) is already 0.
FDivMax == 20 * ONE

\* a / b for a >= 0 and 0 < b <= 2 * ONE, saturating at FDivMax.
FDiv(a, b) ==
    IF a \div b >= FDivMax \div ONE THEN FDivMax
    ELSE LET r1 == (a % b) * 1000
             r2 == (r1 % b) * 1000
         IN  (a \div b) * ONE + (r1 \div b) * 1000 + r2 \div b

\* exp(-n) for a natural number n.
ExpNegInt(n) ==
    LET table == <<1000000, 367879, 135335, 49787, 18316, 6738, 2479, 912,
                   335, 123, 45, 17, 6, 2, 1>>
    IN  IF n < Len(table) THEN table[n + 1] ELSE 0

\* The series 1 - f + f^2/2! - f^3/3! + ... for 0 <= f < ONE, from its k-th
\* term on.
RECURSIVE ExpNegSeries(_, _, _, _)
ExpNegSeries(f, k, term, acc) ==
    LET t == FMul(term, f) \div k
    IN  IF t = 0 THEN acc
        ELSE ExpNegSeries(f, k + 1, t, IF k % 2 = 1 THEN acc - t ELSE acc + t)

\* f64::exp(x) for x <= 0, the only arguments annealing.rs gives it.
FExp(x) ==
    LET y == 0 - x
    IN  FMul(ExpNegSeries(y % ONE, 1, ONE, ONE), ExpNegInt(y \div ONE))

\* T(i) = T0 exp(-ik/N)
Temperature(i) == FMul(T0, FExp(0 - i * KN))

\* p(dE, i) = p0 exp(-dE/T(i))
CutoffP(de, i) ==
    LET t == Temperature(i)
    IN  IF de = NaN THEN NaN ELSE FMul(P0, FExp(0 - FDiv(de, t)))

\* An accept_transition that compares with <= .
AcceptTransitionLe(de, i, r) ==
    IF FLt(de, 0)
    THEN [ret |-> TRUE, drawn |-> FALSE]
    ELSE [ret |-> FLe(r, CutoffP(de, i)), drawn |-> TRUE]

\* accept_transition, with r the value thread_rng().next_f64() gives if it
\* is asked: what is returned, and whether r was drawn.
AcceptTransition(de, i, r) ==
    IF FLt(de, 0)
    THEN [ret |-> TRUE, drawn |-> FALSE]
    ELSE [ret |-> FLt(r, CutoffP(de, i)), drawn |-> TRUE]

\* The values of dE tried: negative, zero and positive, small and large, and
\* NaN.
DeSamples == {0 - 3 * ONE, 0 - 1, 0, 1, ONE \div 4, 3 * ONE, NaN}

\* The values next_f64() gives, in [0, 1): the least, the middle, the greatest.
RSamples == {0, ONE \div 2, ONE - 1}

\* One call accept_transition(acc_de, acc_i).
AcceptCall ==
    /\ command = "accept"
    /\ ~acc_called
    /\ acc_called' = TRUE
    /\ \E r \in RSamples :
          LET a == AcceptTransition(acc_de, acc_i, r)
          IN  /\ acc_ret' = a.ret
              /\ acc_drawn' = a.drawn
              /\ acc_r' = IF a.drawn THEN r ELSE acc_r
    /\ UNCHANGED <<command, permVars, layoutVars, trackerVars, acc_de, acc_i, simVars, callVars>>

InitAccept ==
    /\ command = "accept"
    /\ PermIdle
    /\ LayoutIdle
    /\ TrackerIdle
    /\ SimIdle
    /\ CallsIdle
    /\ acc_de \in DeSamples
    /\ acc_i \in 1 .. N
    /\ acc_r = 0
    /\ acc_drawn = FALSE
    /\ acc_called = FALSE
    /\ acc_ret = FALSE

NextAccept == AcceptCall

SpecAccept == InitAccept /\ [][NextAccept]_vars

(***************************************************************************)
(* layout.rs: what a key press at each position involves, and the map from *)
(* characters to key presses.                                              *)
(***************************************************************************)
KEY_FINGERS ==
    KeyMap(<<"Pinky", "Ring", "Middle", "Index", "Index",    "Index", "Index", "Middle", "Ring", "Pinky", "Pinky",
             "Pinky", "Ring", "Middle", "Index", "Index",    "Index", "Index", "Middle", "Ring", "Pinky", "Pinky",
             "Pinky", "Ring", "Middle", "Index", "Index",    "Index", "Index", "Middle", "Ring", "Pinky",
             "Thumb">>)

KEY_HANDS ==
    KeyMap(<<"Left", "Left", "Left", "Left", "Left",    "Right", "Right", "Right", "Right", "Right", "Right",
             "Left", "Left", "Left", "Left", "Left",    "Right", "Right", "Right", "Right", "Right", "Right",
             "Left", "Left", "Left", "Left", "Left",    "Right", "Right", "Right", "Right", "Right",
             "Left">>)

KEY_ROWS ==
    KeyMap(<<"Top",    "Top",    "Top",    "Top",    "Top",       "Top",    "Top",    "Top",    "Top",    "Top",    "Top",
             "Home",   "Home",   "Home",   "Home",   "Home",      "Home",   "Home",   "Home",   "Home",   "Home",   "Home",
             "Bottom", "Bottom", "Bottom", "Bottom", "Bottom",    "Bottom", "Bottom", "Bottom", "Bottom", "Bottom",
             "Thumb">>)

KEY_CENTER_COLUMN ==
    KeyMap(<<FALSE, FALSE, FALSE, FALSE, TRUE,    TRUE, FALSE, FALSE, FALSE, FALSE, FALSE,
             FALSE, FALSE, FALSE, FALSE, TRUE,    TRUE, FALSE, FALSE, FALSE, FALSE, FALSE,
             FALSE, FALSE, FALSE, FALSE, TRUE,    TRUE, FALSE, FALSE, FALSE, FALSE,
             FALSE>>)

\* Option<KeyPress>: None.
KP_NONE == [some |-> FALSE]

\* Some(KeyPress { .. }) as fill_position_map builds it for character c at
\* position i.
KeyPress(c, i) ==
    [some |-> TRUE, kc |-> c, pos |-> i, finger |-> KEY_FINGERS[i],
     hand |-> KEY_HANDS[i], row |-> KEY_ROWS[i], center |-> KEY_CENTER_COLUMN[i]]

SetMax(S) == CHOOSE x \in S : \A y \in S : y <= x

\* The positions of a layer that hold character c.
LayerPositions(layer, c) == {p \in Positions : layer[p] = c}

\* The entry of get_position_map() for character c: fill_position_map writes
\* the lower layer and then the upper layer, each in position order, so the
\* entry that stays is the last one written.
PositionMapEntry(layout, c) ==
    LET lower == LayerPositions(layout[1], c)
        upper == LayerPositions(layout[2], c)
    IN  IF upper # {} THEN KeyPress(c, SetMax(upper))
        ELSE IF lower # {} THEN KeyPress(c, SetMax(lower))
        ELSE KP_NONE

\* layout.get_position_map(), restricted to the characters in chars (the
\* ones that are going to be looked up).
RECURSIVE GetPositionMap(_, _)
GetPositionMap(layout, chars) ==
    IF chars = {} THEN <<>>
    ELSE LET c == CHOOSE x \in chars : TRUE
         IN  (c :> PositionMapEntry(layout, c)) @@ GetPositionMap(layout, chars \ {c})

\* A char is named by a string: an ASCII character by itself, any other by its
\* code point.  The one that is not ASCII here is e with an acute accent, two
\* bytes in UTF-8.
EAcute == "U+00E9"

\* char::len_utf8
LenUtf8(c) == IF c = EAcute THEN 2 ELSE 1

\* kc < (128 as char)
IsAscii(kc) == LenUtf8(kc) = 1

\* LayoutPosMap::get_key_position
GetKeyPosition(position_map, kc) ==
    IF IsAscii(kc) THEN position_map[kc] ELSE KP_NONE

\* The characters of a string.
CharsOf(string) == {string[k] : k \in 1 .. Len(string)}

(***************************************************************************)
(* penalty.rs.  A corpus is a sequence of one-byte characters; a quartad   *)
(* list is a function from substrings of the corpus to their counts.       *)
(***************************************************************************)
\* One pass of the loop of prepare_quartad_list over the characters from
\* index i (0-based) on, with range.start = start.
RECURSIVE PrepareQuartadsFrom(_, _, _, _, _)
PrepareQuartadsFrom(string, position_map, i, start, counts) ==
    IF i >= Len(string) THEN counts
    ELSE IF GetKeyPosition(position_map, string[i + 1]).some
    THEN LET end == i + 1
             newStart == IF end > 3 /\ start < end - 4 THEN end - 4 ELSE start
             quartad == SubSeq(string, newStart + 1, end)
             counted == IF quartad \in DOMAIN counts
                        THEN [counts EXCEPT ![quartad] = @ + 1]
                        ELSE counts @@ (quartad :> 1)
         IN  PrepareQuartadsFrom(string, position_map, i + 1, newStart, counted)
    ELSE PrepareQuartadsFrom(string, position_map, i + 1, i + 1, counts)

\* prepare_quartad_list(string, &INIT_LAYOUT.get_position_map())
PrepareQuartadList(string) ==
    PrepareQuartadsFrom(string, GetPositionMap(INIT_LAYOUT, CharsOf(string)),
                        0, 0, <<>>)

\* BASE_PENALTY, in halves.  The source lists 34 values; positions 0 .. 32 read
\* the first 33.
BASE_PENALTY ==
    LET halves == <<6, 2, 2, 3, 6,    6, 3, 2, 2, 6, 8,
                    1, 1, 0, 0, 3,    3, 0, 0, 1, 1, 4,
                    4, 4, 3, 3, 5,    5, 3, 3, 4, 4,
                                0,    0>>
    IN  [p \in Positions |-> halves[p + 1] * (ONE \div 2)]

is_roll_out(curr, prev) ==
    CASE curr = "Thumb"  -> FALSE
      [] curr = "Index"  -> prev = "Thumb"
      [] curr = "Middle" -> prev = "Thumb" \/ prev = "Index"
      [] curr = "Ring"   -> prev # "Pinky" /\ prev # "Ring"
      [] curr = "Pinky"  -> prev # "Pinky"

is_roll_in(curr, prev) ==
    CASE curr = "Thumb"  -> prev # "Thumb"
      [] curr = "Index"  -> prev # "Thumb" /\ prev # "Index"
      [] curr = "Middle" -> prev = "Pinky" \/ prev = "Ring"
      [] curr = "Ring"   -> prev = "Pinky"
      [] curr = "Pinky"  -> FALSE

\* curr.row == Row::Top && old.row == Row::Bottom ||
\* curr.row == Row::Bottom && old.row == Row::Top
LongJumpRows(curr, old) ==
    \/ curr.row = "Top" /\ old.row = "Bottom"
    \/ curr.row = "Bottom" /\ old.row = "Top"

\* The two key penalties of penalize, added up in the order of the source.
TwoKeyPenalties(count, curr, old1) ==
    IF curr.hand # old1.hand THEN 0
    ELSE
      \* 1: Same finger.
      (IF curr.finger = old1.finger /\ curr.pos # old1.pos
       THEN (5 * ONE + (IF curr.center THEN 5 * ONE ELSE 0)
                     + (IF old1.center THEN 5 * ONE ELSE 0)) * count
       ELSE 0)
      \* 2: Long jump hand.
      + (IF LongJumpRows(curr, old1) THEN ONE * count ELSE 0)
      \* 3: Long jump.
      + (IF curr.hand = old1.hand /\ curr.finger = old1.finger
            /\ LongJumpRows(curr, old1)
         THEN 10 * ONE * count ELSE 0)
      \* 4: Long jump consecutive.
      + (IF /\ LongJumpRows(curr, old1)
            /\ \/ curr.finger = "Ring"   /\ old1.finger = "Pinky"
               \/ curr.finger = "Pinky"  /\ old1.finger = "Ring"
               \/ curr.finger = "Middle" /\ old1.finger = "Ring"
               \/ curr.finger = "Ring"   /\ old1.finger = "Middle"
               \/ /\ curr.finger = "Index"
                  /\ (old1.finger = "Middle" \/ old1.finger = "Ring")
                  /\ curr.row = "Top" /\ old1.row = "Bottom"
         THEN 5 * ONE * count ELSE 0)
      \* 5: Pinky/ring twist.
      + (IF \/ /\ curr.finger = "Ring" /\ old1.finger = "Pinky"
               /\ \/ curr.row = "Home" /\ old1.row = "Top"
                  \/ curr.row = "Bottom" /\ old1.row = "Top"
            \/ /\ curr.finger = "Pinky" /\ old1.finger = "Ring"
               /\ \/ curr.row = "Top" /\ old1.row = "Home"
                  \/ curr.row = "Top" /\ old1.row = "Bottom"
         THEN 10 * ONE * count ELSE 0)
      \* 9: Roll out.
      + (IF /\ curr.hand = old1.hand
            /\ old1.finger # "Thumb"
            /\ is_roll_out(curr.finger, old1.finger)
         THEN (ONE \div 8) * count ELSE 0)
      \* 10: Roll in.
      + (IF curr.hand = old1.hand /\ is_roll_in(curr.finger, old1.finger)
         THEN 0 - (ONE \div 8) * count ELSE 0)

\* The three key penalties of penalize.
ThreeKeyPenalties(count, curr, old1, old2) ==
    (IF curr.hand = old1.hand /\ old1.hand = old2.hand
     THEN
       \* 6: Roll reversal.
       (IF \/ curr.finger = "Middle" /\ old1.finger = "Pinky" /\ old2.finger = "Ring"
           \/ curr.finger = "Ring" /\ old1.finger = "Pinky" /\ old2.finger = "Middle"
        THEN 20 * ONE * count ELSE 0)
       \* 12: Twist.
       + (IF /\ \/ curr.row = "Top" /\ old1.row = "Home" /\ old2.row = "Bottom"
                \/ curr.row = "Bottom" /\ old1.row = "Home" /\ old2.row = "Top"
             /\ \/ /\ is_roll_out(curr.finger, old1.finger)
                   /\ is_roll_out(old1.finger, old2.finger)
                \/ /\ is_roll_in(curr.finger, old1.finger)
                   /\ is_roll_in(old1.finger, old2.finger)
          THEN 10 * ONE * count ELSE 0)
     ELSE 0)
    \* 11: Long jump sandwich.
    + (IF curr.hand = old2.hand /\ curr.finger = old2.finger
          /\ LongJumpRows(curr, old2)
       THEN 3 * ONE * count ELSE 0)

\* The four key penalties of penalize.
FourKeyPenalties(count, curr, old1, old2, old3) ==
    IF curr.hand = old1.hand /\ old1.hand = old2.hand /\ old2.hand = old3.hand
    THEN (ONE \div 2) * count          \* 7: Same hand.
    ELSE IF curr.hand # old1.hand /\ old1.hand # old2.hand /\ old2.hand # old3.hand
    THEN (ONE \div 2) * count          \* 8: Alternating hand.
    ELSE 0

\* penalize: the total it returns, which stops at the first absent key.
Penalize(count, curr, old1, old2, old3) ==
    LET base == BASE_PENALTY[curr.pos] * count
    IN  IF ~old1.some THEN base
        ELSE IF ~old2.some THEN base + TwoKeyPenalties(count, curr, old1)
        ELSE IF ~old3.some
        THEN base + TwoKeyPenalties(count, curr, old1)
                  + ThreeKeyPenalties(count, curr, old1, old2)
        ELSE base + TwoKeyPenalties(count, curr, old1)
                  + ThreeKeyPenalties(count, curr, old1, old2)
                  + FourKeyPenalties(count, curr, old1, old2, old3)

\* penalty_for_quartad: the characters are read from the last one back.
PenaltyForQuartad(string, count, position_map) ==
    LET len == Len(string)
        curr == GetKeyPosition(position_map, string[len])
        old1 == IF len >= 2 THEN GetKeyPosition(position_map, string[len - 1])
                ELSE KP_NONE
        old2 == IF len >= 3 THEN GetKeyPosition(position_map, string[len - 2])
                ELSE KP_NONE
        old3 == IF len >= 4 THEN GetKeyPosition(position_map, string[len - 3])
                ELSE KP_NONE
    IN  IF ~curr.some THEN 0 ELSE Penalize(count, curr, old1, old2, old3)

\* The sum of penalty_for_quartad over the quartads named in keys.
RECURSIVE SumQuartads(_, _, _)
SumQuartads(qlist, keys, position_map) ==
    IF keys = {} THEN 0
    ELSE LET string == CHOOSE s \in keys : TRUE
         IN  PenaltyForQuartad(string, qlist[string], position_map)
             + SumQuartads(qlist, keys \ {string}, position_map)

\* The characters of the keys of a quartad list.
QuartadChars(qlist) == UNION {CharsOf(string) : string \in DOMAIN qlist}

\* total / (len as f64): 0.0 / 0.0 is NaN.
ScaledPenalty(total, len) == IF len = 0 THEN NaN ELSE total \div len

\* calculate_penalty: the total and the scaled penalty.
CalculatePenalty(qlist, len, layout) ==
    LET position_map == GetPositionMap(layout, QuartadChars(qlist))
        total == SumQuartads(qlist, DOMAIN qlist, position_map)
    IN  [total |-> total, scaled |-> ScaledPenalty(total, len)]

(***************************************************************************)
(* main.rs run and simulator.rs simulate.                                  *)
(***************************************************************************)
\* top_layouts when the command line has no -t (main.rs:92).
DefaultTop == 1

\* The corpora read: a short text, and the empty file.
Corpora == { <<"q", "u", "u">>, <<>> }

\* The values of random::<usize>() given to shuffle_position in simulate:
\* they make shuffle swap positions 0 and 1.
SimDraws == {<<0, 0>>}

\* The values of thread_rng().next_f64() in simulate: the least and the
\* greatest.
SimRSamples == {0, ONE - 1}

\* annealing::get_simulation_range(): 1..(N+1)
GetSimulationRangeShort == [start |-> 1, end |-> N]

GetSimulationRange == [start |-> 1, end |-> N + 1]

\* The start of simulate, up to the for loop.
SimulateProlog(init_layout) ==
    LET penalty == CalculatePenalty(quartads, corpus_len, init_layout)
    IN  /\ best_layouts' = <<>>
        /\ accepted_layout' = init_layout
        /\ accepted_penalty' = penalty.scaled
        /\ sim_range' = GetSimulationRange
        /\ sim_i' = 0
        /\ sim_count' = 0
        /\ offered' = <<>>
        /\ curr_layout' = init_layout
        /\ scaled_penalty' = 0
        /\ acc_de' = 0
        /\ acc_i' = 0
        /\ acc_r' = 0
        /\ acc_drawn' = FALSE
        /\ acc_called' = FALSE
        /\ acc_ret' = FALSE

\* An iteration that takes the candidate as the baseline whatever
\* accept_transition says.
NextAcceptedAlways(accept, accepted, candidate) == candidate

\* The value an iteration leaves in accepted_layout or accepted_penalty.
NextAccepted(accept, accepted, candidate) ==
    IF accept THEN candidate ELSE accepted

\* One iteration of the for loop of simulate (simulator.rs:55-89).  The
\* values computed once in the source are bound once here.
SimIterate ==
    /\ command = "run"
    /\ sim_range.start < sim_range.end
    /\ \E rt \in 0 .. (num_swaps - 1) :
       \E i \in {sim_range.start}, times \in {(rt % num_swaps) + 1} :
       \E draws \in [1 .. times -> SimDraws] :
       \E candidate \in {Shuffle(accepted_layout, draws)} :
       \E penalty \in {CalculatePenalty(quartads, corpus_len, candidate)} :
       \E r \in SimRSamples :
       \E a \in {AcceptTransition(FSub(penalty.scaled, accepted_penalty), i, r)} :
       \E new_entry \in {[layout |-> candidate,
                          total_penalty |-> penalty.total,
                          scaled_penalty |-> penalty.scaled]} :
          /\ sim_range' = [sim_range EXCEPT !.start = i + 1]
          /\ sim_i' = i
          /\ sim_count' = sim_count + 1
          /\ curr_layout' = candidate
          /\ scaled_penalty' = penalty.scaled
          /\ acc_de' = FSub(penalty.scaled, accepted_penalty)
          /\ acc_i' = i
          /\ acc_r' = IF a.drawn THEN r ELSE acc_r
          /\ acc_drawn' = a.drawn
          /\ acc_called' = TRUE
          /\ acc_ret' = a.ret
          /\ accepted_layout' = NextAccepted(a.ret, accepted_layout, candidate)
          /\ accepted_penalty' = NextAccepted(a.ret, accepted_penalty, penalty.scaled)
          /\ best_layouts' = IF a.ret
                             THEN OfferEntry(best_layouts, new_entry, top_layouts)
                             ELSE best_layouts
          /\ offered' = IF a.ret THEN <<new_entry>> ELSE <<>>
    /\ UNCHANGED <<command, permVars, start_layout, shuffle_log, shuffle_times,
                   swaps_total, swap_i, swap_j, swap_n, top_layouts,
                   quartads, corpus_len, num_swaps, callVars>>

\* The for loop is over: simulate prints the list and returns, and the loop
\* of run calls simulate again with the same arguments.
SimAgain ==
    /\ command = "run"
    /\ sim_range.start >= sim_range.end
    /\ SimulateProlog(INIT_LAYOUT)
    /\ UNCHANGED <<command, permVars, start_layout, shuffle_log, shuffle_times,
                   swaps_total, swap_i, swap_j, swap_n, top_layouts,
                   quartads, corpus_len, num_swaps, callVars>>

\* run on one of the corpora, at its first call of simulate on INIT_LAYOUT.
InitSim ==
    /\ command = "run"
    /\ PermIdle
    /\ AcceptIdle
    /\ CallsIdle
    /\ curr_layout = INIT_LAYOUT
    /\ start_layout = NoLayout
    /\ shuffle_log = <<>>
    /\ shuffle_times = 0
    /\ swaps_total = 0
    /\ swap_i = 0
    /\ swap_j = 0
    /\ swap_n = 0
    /\ \E s \in Corpora :
          /\ quartads = PrepareQuartadList(s)
          /\ corpus_len = Len(s)
    /\ num_swaps = SimSwaps
    /\ top_layouts = DefaultTop
    /\ best_layouts = <<>>
    /\ accepted_layout = INIT_LAYOUT
    /\ accepted_penalty = CalculatePenalty(quartads, corpus_len, INIT_LAYOUT).scaled
    /\ scaled_penalty = 0
    /\ sim_range = GetSimulationRange
    /\ sim_i = 0
    /\ sim_count = 0
    /\ offered = <<>>

NextSim == SimIterate \/ SimAgain

SpecSim == InitSim /\ [][NextSim]_vars

(***************************************************************************)
(* penalty.rs: prepare_quartad_list, one iteration of its for loop at a    *)
(* time.  string.chars().enumerate() counts chars, while &string[range]    *)
(* slices by byte offsets and panics when an end of the range is not on a  *)
(* char boundary.                                                          *)
(***************************************************************************)
\* The longest corpus handed to prepare_quartad_list, in chars.
MaxCorpus == 5

\* The byte offset of the char after the first k chars of string.
RECURSIVE ByteOffset(_, _)
ByteOffset(string, k) ==
    IF k = 0 THEN 0 ELSE ByteOffset(string, k - 1) + LenUtf8(string[k])

\* str::is_char_boundary
IsCharBoundary(string, b) == \E k \in 0 .. Len(string) : ByteOffset(string, k) = b

\* &string[start..end] for start and end on char boundaries: the chars whose
\* bytes lie in the range.
StrSlice(string, start, end) ==
    LET first == CHOOSE k \in 0 .. Len(string) : ByteOffset(string, k) = start
        last  == CHOOSE k \in 0 .. Len(string) : ByteOffset(string, k) = end
    IN  SubSeq(string, first + 1, last)

\* *quartads.entry(quartad).or_insert(0) += 1
CountQuartad(counts, quartad) ==
    IF quartad \in DOMAIN counts
    THEN [counts EXCEPT ![quartad] = @ + 1]
    ELSE counts @@ (quartad :> 1)

\* The range of an iteration on a mapped char when the window is let grow to
\* five.
WindowRangeFive(range, i) ==
    LET end == i + 1
    IN  [start |-> IF end > 4 /\ range.start < end - 5 THEN end - 5 ELSE range.start,
         end |-> end]

\* range.end = i + 1; if range.end > 3 && range.start < range.end - 4 {
\* range.start = range.end - 4; }
WindowRange(range, i) ==
    LET end == i + 1
    IN  [start |-> IF end > 3 /\ range.start < end - 4 THEN end - 4 ELSE range.start,
         end |-> end]

\* The body of the for loop for the char with index i (0-based).
PrepareStep(string, position_map, i, range, counts) ==
    IF GetKeyPosition(position_map, string[i + 1]).some
    THEN LET r == WindowRange(range, i)
         IN  IF IsCharBoundary(string, r.start) /\ IsCharBoundary(string, r.end)
             THEN [range |-> r, ret |-> "Running",
                   counts |-> CountQuartad(counts, StrSlice(string, r.start, r.end))]
             ELSE [range |-> r, ret |-> "Panic", counts |-> counts]
    ELSE [range |-> [start |-> i + 1, end |-> i + 1], ret |-> "Running",
          counts |-> counts]

\* One iteration of the for loop.
PrepIterate ==
    /\ command = "prepare"
    /\ prep_ret = "Running"
    /\ prep_i < Len(prep_string)
    /\ LET position_map == GetPositionMap(prep_ref, CharsOf(prep_string))
           s == PrepareStep(prep_string, position_map, prep_i, prep_range, prep_counts)
       IN  /\ prep_range' = s.range
           /\ prep_counts' = s.counts
           /\ prep_ret' = s.ret
    /\ prep_i' = prep_i + 1
    /\ UNCHANGED <<command, permVars, layoutVars, trackerVars, acceptVars, simVars,
                   prep_string, prep_ref, scoreVars, refineVars, offer_log>>

\* The for loop is over: QuartadList(quartads) is returned.
PrepReturn ==
    /\ command = "prepare"
    /\ prep_ret = "Running"
    /\ prep_i = Len(prep_string)
    /\ prep_ret' = "Done"
    /\ UNCHANGED <<command, permVars, layoutVars, trackerVars, acceptVars, simVars,
                   prep_string, prep_ref, prep_i, prep_range, prep_counts,
                   scoreVars, refineVars, offer_log>>

\* The chars of the corpora: one on both reference layouts, one on INIT_LAYOUT
\* alone, one on neither, and one that is not ASCII.
PrepChars == {"a", "=", "#", EAcute}

\* The corpora of up to MaxCorpus chars.
PrepCorpora == UNION {[1 .. n -> PrepChars] : n \in 0 .. MaxCorpus}

InitPrep ==
    /\ command = "prepare"
    /\ PermIdle
    /\ LayoutIdle
    /\ TrackerIdle
    /\ AcceptIdle
    /\ SimIdle
    /\ ScoreIdle
    /\ RefineIdle
    /\ offer_log = <<>>
    /\ prep_string \in PrepCorpora
    /\ prep_ref \in {INIT_LAYOUT, QWERTY_LAYOUT}
    /\ prep_i = 0
    /\ prep_range = [start |-> 0, end |-> 0]
    /\ prep_counts = <<>>
    /\ prep_ret = "Running"

NextPrep == PrepIterate \/ PrepReturn

SpecPrep == InitPrep /\ [][NextPrep]_vars

(***************************************************************************)
(* penalty.rs: calculate_penalty with detailed = true.  The state of       *)
(* penalize is its running total and result[k].total for the 13 entries    *)
(* of penalty::init(), k = 0 .. 12 (index k + 1 here).                      *)
(***************************************************************************)
NumPenalties == 13

NoPenalties == [total |-> 0, result |-> [k \in 1 .. NumPenalties |-> 0]]

\* total += penalty, without the detailed branch.
AddPenaltyTotalOnly(acc, k, penalty) ==
    [total |-> acc.total + penalty, result |-> acc.result]

\* if detailed { result[k].total += penalty; }  total += penalty;
AddPenalty(acc, k, penalty) ==
    [total |-> acc.total + penalty,
     result |-> [acc.result EXCEPT ![k + 1] = @ + penalty]]

\* The fingers of rule 4 when the index finger after the middle or ring finger
\* counts on the way down, from the top row to the bottom row.
LongJumpConsecutiveDown(curr, old1) ==
    /\ LongJumpRows(curr, old1)
    /\ \/ curr.finger = "Ring"   /\ old1.finger = "Pinky"
       \/ curr.finger = "Pinky"  /\ old1.finger = "Ring"
       \/ curr.finger = "Middle" /\ old1.finger = "Ring"
       \/ curr.finger = "Ring"   /\ old1.finger = "Middle"
       \/ /\ curr.finger = "Index"
          /\ (old1.finger = "Middle" \/ old1.finger = "Ring")
          /\ curr.row = "Bottom" /\ old1.row = "Top"

\* The two nested conditions of rule 4 (penalty.rs:294-302).
LongJumpConsecutive(curr, old1) ==
    /\ \/ curr.row = "Top" /\ old1.row = "Bottom"
       \/ curr.row = "Bottom" /\ old1.row = "Top"
    /\ \/ curr.finger = "Ring"   /\ old1.finger = "Pinky"
       \/ curr.finger = "Pinky"  /\ old1.finger = "Ring"
       \/ curr.finger = "Middle" /\ old1.finger = "Ring"
       \/ curr.finger = "Ring"   /\ old1.finger = "Middle"
       \/ /\ curr.finger = "Index"
          /\ (old1.finger = "Middle" \/ old1.finger = "Ring")
          /\ curr.row = "Top" /\ old1.row = "Bottom"

\* The block if curr.hand == old1.hand { .. } of penalize (penalty.rs:254-348).
PenalizeTwoKeys(acc, count, curr, old1) ==
    IF curr.hand # old1.hand THEN acc
    ELSE
      LET a1 == IF curr.finger = old1.finger /\ curr.pos # old1.pos
                THEN AddPenalty(acc, 1,
                        (5 * ONE + (IF curr.center THEN 5 * ONE ELSE 0)
                                 + (IF old1.center THEN 5 * ONE ELSE 0)) * count)
                ELSE acc
          a2 == IF LongJumpRows(curr, old1)
                THEN AddPenalty(a1, 2, ONE * count) ELSE a1
          a3 == IF curr.hand = old1.hand /\ curr.finger = old1.finger
                   /\ LongJumpRows(curr, old1)
                THEN AddPenalty(a2, 3, 10 * ONE * count) ELSE a2
          a4 == IF LongJumpConsecutive(curr, old1)
                THEN AddPenalty(a3, 4, 5 * ONE * count) ELSE a3
          a5 == IF \/ /\ curr.finger = "Ring" /\ old1.finger = "Pinky"
                      /\ \/ curr.row = "Home" /\ old1.row = "Top"
                         \/ curr.row = "Bottom" /\ old1.row = "Top"
                   \/ /\ curr.finger = "Pinky" /\ old1.finger = "Ring"
                      /\ \/ curr.row = "Top" /\ old1.row = "Home"
                         \/ curr.row = "Top" /\ old1.row = "Bottom"
                THEN AddPenalty(a4, 5, 10 * ONE * count) ELSE a4
          a9 == IF /\ curr.hand = old1.hand
                   /\ old1.finger # "Thumb"
                   /\ is_roll_out(curr.finger, old1.finger)
                THEN AddPenalty(a5, 9, (ONE \div 8) * count) ELSE a5
      IN  IF curr.hand = old1.hand /\ is_roll_in(curr.finger, old1.finger)
          THEN AddPenalty(a9, 10, 0 - (ONE \div 8) * count) ELSE a9

\* The three key penalties of penalize (penalty.rs:356-396).
PenalizeThreeKeys(acc, count, curr, old1, old2) ==
    LET a6  == IF /\ curr.hand = old1.hand /\ old1.hand = old2.hand
                  /\ \/ curr.finger = "Middle" /\ old1.finger = "Pinky"
                        /\ old2.finger = "Ring"
                     \/ curr.finger = "Ring" /\ old1.finger = "Pinky"
                        /\ old2.finger = "Middle"
               THEN AddPenalty(acc, 6, 20 * ONE * count) ELSE acc
        a12 == IF /\ curr.hand = old1.hand /\ old1.hand = old2.hand
                  /\ \/ curr.row = "Top" /\ old1.row = "Home" /\ old2.row = "Bottom"
                     \/ curr.row = "Bottom" /\ old1.row = "Home" /\ old2.row = "Top"
                  /\ \/ /\ is_roll_out(curr.finger, old1.finger)
                        /\ is_roll_out(old1.finger, old2.finger)
                     \/ /\ is_roll_in(curr.finger, old1.finger)
                        /\ is_roll_in(old1.finger, old2.finger)
               THEN AddPenalty(a6, 12, 10 * ONE * count) ELSE a6
    IN  IF curr.hand = old2.hand /\ curr.finger = old2.finger
           /\ LongJumpRows(curr, old2)
        THEN AddPenalty(a12, 11, 3 * ONE * count) ELSE a12

\* The four key penalties of penalize (penalty.rs:404-422).
PenalizeFourKeys(acc, count, curr, old1, old2, old3) ==
    IF curr.hand = old1.hand /\ old1.hand = old2.hand /\ old2.hand = old3.hand
    THEN AddPenalty(acc, 7, (ONE \div 2) * count)
    ELSE IF curr.hand # old1.hand /\ old1.hand # old2.hand /\ old2.hand # old3.hand
    THEN AddPenalty(acc, 8, (ONE \div 2) * count)
    ELSE acc

\* penalize with detailed = true: the total it returns and what it adds to
\* each result[k].total.
PenalizeDetailed(count, curr, old1, old2, old3) ==
    LET a0 == AddPenalty(NoPenalties, 0, BASE_PENALTY[curr.pos] * count)
    IN  IF ~old1.some THEN a0
        ELSE LET a2 == PenalizeTwoKeys(a0, count, curr, old1)
             IN  IF ~old2.some THEN a2
                 ELSE LET a3 == PenalizeThreeKeys(a2, count, curr, old1, old2)
                      IN  IF ~old3.some THEN a3
                          ELSE PenalizeFourKeys(a3, count, curr, old1, old2, old3)

\* penalty_for_quartad with detailed = true.
PenaltyForQuartadDetailed(string, count, position_map) ==
    LET len == Len(string)
        curr == GetKeyPosition(position_map, string[len])
        old1 == IF len >= 2 THEN GetKeyPosition(position_map, string[len - 1])
                ELSE KP_NONE
        old2 == IF len >= 3 THEN GetKeyPosition(position_map, string[len - 2])
                ELSE KP_NONE
        old3 == IF len >= 4 THEN GetKeyPosition(position_map, string[len - 3])
                ELSE KP_NONE
    IN  IF ~curr.some THEN NoPenalties
        ELSE PenalizeDetailed(count, curr, old1, old2, old3)

\* The longest of the corpora written with every char of ScoreChars.
MaxText == 3

\* Chars of the left hand on the ring, middle, pinky and index fingers and on
\* the three rows, one char of the right hand, and one that is on no layout.
ScoreChars == {"u", "p", "a", "n", "k", "c", "t", "#"}

\* The chars of the lower layer of INIT_LAYOUT.
InitChars == {INIT_LAYOUT[1][p] : p \in Positions}

\* The corpora scored: every two chars of INIT_LAYOUT, every text of up to
\* MaxText chars of ScoreChars, and three longer texts: four keys of one hand,
\* four keys of alternating hands, and quartads that occur twice.
ScoreCorpora ==
    [1 .. 2 -> InitChars]
    \cup UNION {[1 .. n -> ScoreChars] : n \in 1 .. MaxText}
    \cup { <<"u", "p", "a", "n">>, <<"u", "t", "u", "t">>,
           <<"u", "k", "#", "u", "k">> }

\* The pointwise sum of two result vectors.
AddResults(r1, r2) == [k \in 1 .. NumPenalties |-> r1[k] + r2[k]]

\* One iteration of for (string, count) in quartads: a HashMap is iterated
\* in no particular order.
ScoreQuartad ==
    /\ command = "score"
    /\ score_todo # {}
    /\ \E string \in score_todo :
          LET position_map == GetPositionMap(score_layout, QuartadChars(quartads))
              p == PenaltyForQuartadDetailed(string, quartads[string], position_map)
          IN  /\ score_total' = score_total + p.total
              /\ score_result' = AddResults(score_result, p.result)
              /\ score_last' = [string |-> string, count |-> quartads[string],
                                total |-> p.total, result |-> p.result]
              /\ score_todo' = score_todo \ {string}
    /\ UNCHANGED <<command, permVars, layoutVars, trackerVars, acceptVars, simVars,
                   prepVars, score_layout, score_ret, refineVars, offer_log>>

\* (total, total / (len as f64), result)
ScoreReturn ==
    /\ command = "score"
    /\ score_todo = {}
    /\ score_ret = <<>>
    /\ score_ret' = [total |-> score_total,
                     scaled |-> ScaledPenalty(score_total, corpus_len),
                     result |-> score_result]
    /\ UNCHANGED <<command, permVars, layoutVars, trackerVars, acceptVars, simVars,
                   prepVars, score_layout, score_todo, score_total, score_result,
                   score_last, refineVars, offer_log>>

\* run_ref: the quartad list of a corpus, built on INIT_LAYOUT's map, is scored
\* in detail on a reference layout.
InitScore ==
    /\ command = "score"
    /\ PermIdle
    /\ LayoutIdle
    /\ TrackerIdle
    /\ AcceptIdle
    /\ PrepIdle
    /\ RefineIdle
    /\ offer_log = <<>>
    /\ \E s \in ScoreCorpora :
          /\ quartads = PrepareQuartadList(s)
          /\ corpus_len = Len(s)
    /\ num_swaps = 0
    /\ accepted_layout = NoLayout
    /\ accepted_penalty = 0
    /\ scaled_penalty = 0
    /\ sim_range = [start |-> 0, end |-> 0]
    /\ sim_i = 0
    /\ sim_count = 0
    /\ offered = <<>>
    /\ score_layout \in {INIT_LAYOUT, QWERTY_LAYOUT}
    /\ score_todo = DOMAIN quartads
    /\ score_total = 0
    /\ score_result = NoPenalties.result
    /\ score_last = <<>>
    /\ score_ret = <<>>

NextScore == ScoreQuartad \/ ScoreReturn

SpecScore == InitScore /\ [][NextScore]_vars

(***************************************************************************)
(* simulator.rs: the best-layouts list with every offer made to it kept in *)
(* offer_log.  The scaled penalties of one run are all numbers, or all NaN *)
(* when the corpus is empty.                                               *)
(***************************************************************************)
\* The offers made to one list.
MaxOffers == 4

\* One offer, as simulate and refine make it: list_insert_ordered and the
\* truncation loop.
OfferLogged ==
    /\ command = "offers"
    /\ Len(offer_log) < MaxOffers
    /\ \E entry \in OfferedEntries :
          /\ offer_log # <<>> =>
                ((entry.scaled_penalty = NaN) <=> (offer_log[1].scaled_penalty = NaN))
          /\ best_layouts' = OfferEntry(best_layouts, entry, top_layouts)
          /\ offer_log' = Append(offer_log, entry)
    /\ UNCHANGED <<command, permVars, layoutVars, top_layouts, acceptVars, simVars,
                   prepVars, scoreVars, refineVars>>

InitOffers ==
    /\ command = "offers"
    /\ PermIdle
    /\ LayoutIdle
    /\ AcceptIdle
    /\ SimIdle
    /\ PrepIdle
    /\ ScoreIdle
    /\ RefineIdle
    /\ best_layouts = <<>>
    /\ top_layouts \in 0 .. MaxTop
    /\ offer_log = <<>>

NextOffers == OfferLogged

SpecOffers == InitOffers /\ [][NextOffers]_vars

(***************************************************************************)
(* simulator.rs: refine.  The generator of a round is kept in the          *)
(* variables of LayoutPermutations, the list of the round in best_layouts, *)
(* refine's curr_layout in curr_layout.                                    *)
(***************************************************************************)
\* The num_swaps argument of the refine runs.
RefineSwaps == 1

\* The rounds of the loop of refine that are followed.
MaxRounds == 3

\* LayoutPermutations::next on a generator with base orig, as a value: the
\* swap_idx it leaves, what it returns, and the layout of a Some.
PermutationsNext(orig, sidx, st) ==
    LET a == Advance(sidx, st)
    IN  IF ~a.some
        THEN [swap_idx |-> a.swap_idx, ret |-> "None", layout |-> NoLayout]
        ELSE IF ResetPanics(a)
        THEN [swap_idx |-> a.swap_idx, ret |-> "Panic", layout |-> NoLayout]
        ELSE IF OffsetPanics(ResetLower(a))
        THEN [swap_idx |-> ResetLower(a), ret |-> "Panic", layout |-> NoLayout]
        ELSE [swap_idx |-> ResetLower(a), ret |-> "Some",
              layout |-> ApplySwaps(orig, ResetLower(a), 0)]

\* One iteration of for (i, layout) in permutations.enumerate(): next()
\* returns a layout, which is scored and offered to the list of the round.
RefineIterate ==
    /\ command = "refine"
    /\ ref_state = "Enumerating"
    /\ ref_round < MaxRounds
    /\ \E n \in {PermutationsNext(orig_layout, swap_idx, started)} :
          /\ n.ret # "None"
          /\ swap_idx' = n.swap_idx
          /\ started' = TRUE
          /\ perm_ret' = n.ret
          /\ perm_layout' = n.layout
          /\ IF n.ret = "Panic"
             THEN /\ ref_state' = "Panic"
                  /\ UNCHANGED <<perm_count, best_layouts>>
             ELSE \E penalty \in {CalculatePenalty(quartads, corpus_len, n.layout)} :
                     /\ ref_state' = ref_state
                     /\ perm_count' = perm_count + 1
                     /\ best_layouts' =
                           OfferEntry(best_layouts,
                                      [layout |-> n.layout,
                                       total_penalty |-> penalty.total,
                                       scaled_penalty |-> penalty.scaled],
                                      top_layouts)
    /\ UNCHANGED <<command, orig_layout, perm_seen, layoutVars, top_layouts,
                   acceptVars, simVars, prepVars, scoreVars, ref_init_layout,
                   curr_penalty, ref_round, offer_log>>

\* let permutations = layout::LayoutPermutations::new(init_layout, num_swaps);
RoundBase(init, curr) == init

\* next() returns None: the for loop is over and the round ends with
\* pop_front().unwrap() and the test of curr_penalty; unless the loop breaks,
\* the next round starts with a new list and a new generator.
RefineRoundEnd ==
    /\ command = "refine"
    /\ ref_state = "Enumerating"
    /\ ref_round < MaxRounds
    /\ PermutationsNext(orig_layout, swap_idx, started).ret = "None"
    /\ ref_round' = ref_round + 1
    /\ IF best_layouts = <<>>
       THEN /\ ref_state' = "Panic"
            /\ perm_ret' = "None"
            /\ UNCHANGED <<orig_layout, swap_idx, started, perm_layout, perm_count,
                           best_layouts, curr_layout, curr_penalty>>
       ELSE LET best == Head(best_layouts)
            IN  IF FLe(curr_penalty, best.scaled_penalty)
                THEN /\ ref_state' = "Broke"
                     /\ perm_ret' = "None"
                     /\ best_layouts' = Tail(best_layouts)
                     /\ UNCHANGED <<orig_layout, swap_idx, started, perm_layout,
                                    perm_count, curr_layout, curr_penalty>>
                ELSE /\ ref_state' = "Enumerating"
                     /\ curr_layout' = best.layout
                     /\ curr_penalty' = best.scaled_penalty
                     /\ best_layouts' = <<>>
                     /\ orig_layout' = RoundBase(ref_init_layout, best.layout)
                     /\ swap_idx' = NewSwapIdx(num_swaps)
                     /\ started' = FALSE
                     /\ perm_ret' = "NotCalled"
                     /\ perm_layout' = NoLayout
                     /\ perm_count' = 0
    /\ UNCHANGED <<command, perm_seen, start_layout, shuffle_log, shuffle_times,
                   swaps_total, swap_i, swap_j, swap_n, top_layouts, acceptVars,
                   simVars, prepVars, scoreVars, ref_init_layout, offer_log>>

\* The corpora of the refine runs: a short text, and the empty file.
RefineCorpora == { <<"q", "u", "u">>, <<>> }

\* refine on one of the corpora, at the first round of its loop.
InitRefine ==
    /\ command = "refine"
    /\ AcceptIdle
    /\ PrepIdle
    /\ ScoreIdle
    /\ offer_log = <<>>
    /\ \E s \in RefineCorpora :
          /\ quartads = PrepareQuartadList(s)
          /\ corpus_len = Len(s)
    /\ num_swaps = RefineSwaps
    /\ top_layouts \in 0 .. MaxTop
    /\ ref_init_layout \in {INIT_LAYOUT, QWERTY_LAYOUT}
    /\ curr_layout = ref_init_layout
    /\ curr_penalty = CalculatePenalty(quartads, corpus_len, ref_init_layout).scaled
    /\ ref_round = 0
    /\ ref_state = "Enumerating"
    /\ best_layouts = <<>>
    /\ orig_layout = RoundBase(ref_init_layout, curr_layout)
    /\ swap_idx = NewSwapIdx(num_swaps)
    /\ started = FALSE
    /\ perm_ret = "NotCalled"
    /\ perm_layout = NoLayout
    /\ perm_count = 0
    /\ perm_seen = {}
    /\ start_layout = NoLayout
    /\ shuffle_log = <<>>
    /\ shuffle_times = 0
    /\ swaps_total = 0
    /\ swap_i = 0
    /\ swap_j = 0
    /\ swap_n = 0
    /\ accepted_layout = NoLayout
    /\ accepted_penalty = 0
    /\ scaled_penalty = 0
    /\ sim_range = [start |-> 0, end |-> 0]
    /\ sim_i = 0
    /\ sim_count = 0
    /\ offered = <<>>

NextRefine == RefineIterate \/ RefineRoundEnd

SpecRefine == InitRefine /\ [][NextRefine]_vars

(***************************************************************************)
(* The generator under a caller that keeps calling next(), as the for loop *)
(* of refine does until it gets None.                                      *)
(***************************************************************************)
SpecPermFair == InitPerm /\ [][NextPerm]_vars /\ WF_vars(NextPerm)

(***************************************************************************)
(* Properties of the permutation generator.                                *)
(***************************************************************************)
\* The positions where layout l differs from layout b in either layer.
DiffPositions(b, l) == {p \in Positions : l[1][p] # b[1][p] \/ l[2][p] # b[2][p]}

\* l is b with d pairwise-disjoint pairs of swappable positions exchanged:
\* exactly 2d positions differ, all swappable, and each of them holds what b
\* holds at one other of them, which holds what b holds here.
IsDisjointSwapOf(b, l, d) ==
    LET D == DiffPositions(b, l)
    IN  /\ Cardinality(D) = 2 * d
        /\ D \subseteq Swappable
        /\ \A p \in D : \E q \in D \ {p} :
              /\ l[1][p] = b[1][q] /\ l[1][q] = b[1][p]
              /\ l[2][p] = b[2][q] /\ l[2][q] = b[2][p]

\* The number of sets of d pairwise-disjoint pairs out of m positions:
\* C(m, 2) * C(m - 2, 2) * ... (d factors) / d!.
RECURSIVE NumPairSets(_, _)
NumPairSets(m, d) ==
    IF d = 0
    THEN 1
    ELSE LET rest == m - 2 * (d - 1)
         IN  (NumPairSets(m, d - 1) * ((rest * (rest - 1)) \div 2)) \div d

\* C1: for every depth d >= 1 the generator returns only layouts that are the
\* base with d pairwise-disjoint pairs of swappable positions exchanged, and
\* by the time it returns None it has returned as many layouts as there are
\* sets of d disjoint pairs (each combination once, none missing).
C1_EveryDisjointSwapOnce ==
    (command = "permute" /\ Depth >= 1) =>
        /\ perm_ret = "Some" => IsDisjointSwapOf(orig_layout, perm_layout, Depth)
        /\ perm_ret = "None" => perm_count = NumPairSets(LAYOUT_MASK_NUM_SWAPPABLE, Depth)

\* What the depth-2 generator has returned by the time it returns None: the
\* C(31,2) single swaps followed by the C(31,4) double swaps (a, b), (c, d)
\* with a > b > c > d, a third of the sets of two disjoint pairs.
Depth2Count ==
    (command = "permute" /\ Depth = 2 /\ perm_ret = "None") =>
        /\ perm_count = 465 + 31465
        /\ NumPairSets(LAYOUT_MASK_NUM_SWAPPABLE, 2) = 3 * 31465

\* C2: at depth 1 every call of next() ends normally, every layout returned is
\* the base with one pair of distinct swappable positions exchanged, no layout
\* is returned twice, and None comes after exactly C(31,2) = 465 layouts.
C2_DepthOneAllSingleSwaps ==
    /\ perm_ret # "Panic"
    /\ perm_ret = "Some" => IsDisjointSwapOf(orig_layout, perm_layout, 1)
    /\ Cardinality(perm_seen) = perm_count
    /\ perm_count <= (LAYOUT_MASK_NUM_SWAPPABLE * (LAYOUT_MASK_NUM_SWAPPABLE - 1)) \div 2
    /\ perm_ret = "None" => perm_count = 465

\* The depth-1 generator is exhausted after its 465 layouts, the last of them
\* the swap of positions 31 and 30.
C2_Witness ==
    /\ Depth = 1
    /\ perm_ret = "None"
    /\ perm_count = 465
    /\ LayoutSwap(orig_layout, 31, 30) \in perm_seen

\* C3: at depth 0 the first next() ends normally with Some(the base layout),
\* the only layout returned, and the call after it returns None.
C3_DepthZeroYieldsBase ==
    (command = "permute" /\ Depth = 0) =>
        /\ perm_ret # "Panic"
        /\ perm_ret = "Some" => (perm_layout = orig_layout /\ perm_count = 1)
        /\ perm_ret = "None" => perm_count = 1

(***************************************************************************)
(* Properties of swap and shuffle.                                         *)
(***************************************************************************)
\* The (lower, upper) character pairs of a layout's 33 keys.
PairsOf(l) == {<<l[1][p], l[2][p]>> : p \in Positions}

\* C8: after any shuffle calls, and in every layout the generator returns,
\* the 33 keys hold the same (lower, upper) character pairs as the starting
\* layout: no swap separates a lower character from its upper character.
C8_LayersMoveTogether ==
    /\ command = "shuffle" =>
          /\ PairsOf(curr_layout) = PairsOf(start_layout)
          /\ Cardinality(PairsOf(curr_layout)) = NumPositions
    /\ perm_ret = "Some" =>
          /\ PairsOf(perm_layout) = PairsOf(orig_layout)
          /\ Cardinality(PairsOf(perm_layout)) = NumPositions

\* Two shuffle swaps have moved the layout away from the starting layout.
C8_Witness ==
    /\ command = "shuffle"
    /\ swaps_total = 2
    /\ Cardinality(DiffPositions(start_layout, curr_layout)) >= 3

\* C9: swap(i, j) applied twice in a row gives back the layout as it was, for
\* all positions i, j; swap(i, i) changes nothing.
C9_SwapInvolution ==
    command = "swap" =>
        /\ swap_n = 2 => curr_layout = start_layout
        /\ swap_i = swap_j => curr_layout = start_layout

\* Two distinct positions holding different characters were swapped twice.
C9_Witness ==
    /\ command = "swap"
    /\ swap_n = 2
    /\ swap_i # swap_j
    /\ start_layout[1][swap_i] # start_layout[1][swap_j]
    /\ curr_layout = start_layout

\* Every residue of % 31 and of % 30 twice over.
AllDraws == 0 .. (2 * LAYOUT_MASK_NUM_SWAPPABLE - 1)

\* C10: shuffle_position returns two distinct positions other than 10 and 32
\* for every pair of draws; every swap of a shuffle call uses such a pair;
\* shuffle(times) applies exactly times swaps; positions 10 and 32 of both
\* layers keep their characters.
C10_ShuffleSwapsSwappable ==
    command = "shuffle" =>
        /\ swaps_total = 0 =>
              \A r1 \in AllDraws, r2 \in AllDraws :
                 LET ij == ShufflePosition(r1, r2)
                 IN  /\ ij[1] # ij[2]
                     /\ ij[1] \in Positions \ {10, 32}
                     /\ ij[2] \in Positions \ {10, 32}
        /\ \A k \in 1 .. Len(shuffle_log) :
              /\ shuffle_log[k][1] # shuffle_log[k][2]
              /\ shuffle_log[k][1] \in Positions \ {10, 32}
              /\ shuffle_log[k][2] \in Positions \ {10, 32}
        /\ Len(shuffle_log) = shuffle_times
        /\ Cardinality(DiffPositions(start_layout, curr_layout)) <= 2 * swaps_total
        /\ \A l \in {1, 2} :
              /\ curr_layout[l][10] = start_layout[l][10]
              /\ curr_layout[l][32] = start_layout[l][32]

\* A shuffle(2) whose second swap exchanged positions 11 and 31: the draws 10
\* and 29, the first past the offset and the second stepped over i.
C10_Witness ==
    /\ command = "shuffle"
    /\ shuffle_times = 2
    /\ Len(shuffle_log) = 2
    /\ shuffle_log[2] = <<11, 31>>
    /\ curr_layout # start_layout

(***************************************************************************)
(* Properties of the best-layouts list.                                    *)
(***************************************************************************)
\* C4: after every offer the list holds at most top_layouts entries and its
\* scaled penalties never decrease from front to back: no entry's scaled
\* penalty is greater than that of the entry after it.
C4_TrackerBoundedAndSorted ==
    command = "track" =>
        /\ Len(best_layouts) <= top_layouts
        /\ \A k \in 1 .. (Len(best_layouts) - 1) :
              PartialCmp(best_layouts[k].scaled_penalty,
                         best_layouts[k + 1].scaled_penalty) # "Greater"

\* A full list of three entries with three different penalties: to be there
\* the three were offered, and any fourth offer evicted an entry.
C4_Witness ==
    /\ command = "track"
    /\ top_layouts = 3
    /\ Len(best_layouts) = 3
    /\ PartialCmp(best_layouts[1].scaled_penalty,
                  best_layouts[2].scaled_penalty) = "Less"
    /\ PartialCmp(best_layouts[2].scaled_penalty,
                  best_layouts[3].scaled_penalty) = "Less"

(***************************************************************************)
(* Properties of accept_transition.                                        *)
(***************************************************************************)
\* C7: a call with dE < 0 returns true at every index 1 .. N and draws no
\* random number; a call with dE >= 0 returns true exactly when the number
\* it drew is strictly below the cutoff P0 exp(-dE / T(i)).
C7_AcceptRule ==
    (command = "accept" /\ acc_called) =>
        /\ FLt(acc_de, 0) => (acc_ret /\ ~acc_drawn)
        /\ FGe(acc_de, 0) =>
              (acc_drawn /\ (acc_ret <=> FLt(acc_r, CutoffP(acc_de, acc_i))))

\* A worse candidate (dE > 0) at the last index, accepted by its draw.
C7_Witness ==
    /\ command = "accept"
    /\ acc_called
    /\ FLt(0, acc_de)
    /\ acc_i = N
    /\ acc_drawn
    /\ acc_ret

(***************************************************************************)
(* Properties of simulate.                                                 *)
(***************************************************************************)
\* C5: in every iteration of simulate, if accept_transition returned false
\* then accepted_layout, accepted_penalty and the best-layouts list are as they
\* were and nothing was offered; if it returned true then accepted_layout is
\* the candidate that was scored, accepted_penalty is that candidate's scaled
\* penalty, and exactly one entry was offered to the list: that candidate
\* with that score.
C5_AcceptRejectFrame ==
    [][(command = "run" /\ sim_count' = sim_count + 1) =>
         /\ scaled_penalty'
               = CalculatePenalty(quartads, corpus_len, curr_layout').scaled
         /\ IF acc_ret'
            THEN /\ accepted_layout' = curr_layout'
                 /\ accepted_penalty' = scaled_penalty'
                 /\ Len(offered') = 1
                 /\ offered'[1].layout = curr_layout'
                 /\ offered'[1].scaled_penalty = scaled_penalty'
            ELSE /\ accepted_layout' = accepted_layout
                 /\ accepted_penalty' = accepted_penalty
                 /\ best_layouts' = best_layouts
                 /\ offered' = <<>>]_vars

\* A rejected candidate that differs from the baseline, after an earlier
\* candidate was accepted and entered the list.
C5_Witness ==
    /\ command = "run"
    /\ acc_called
    /\ ~acc_ret
    /\ curr_layout # accepted_layout
    /\ best_layouts # <<>>

\* C6: the k-th iteration of an invocation of simulate runs with index k,
\* whether its candidate is accepted or not, no index exceeds N, the
\* invocation ends only after iteration N, and the next invocation starts
\* over: its first iteration has index 1.
C6_ExactlyNIterations ==
    [][command = "run" =>
         \/ /\ sim_count' = sim_count + 1
            /\ sim_i' = sim_count'
            /\ sim_i' \in 1 .. N
         \/ /\ sim_count = N
            /\ sim_i = N
            /\ sim_count' = 0
            /\ sim_range'.start = 1]_vars

\* The last iteration of an invocation, with a rejected candidate and a full
\* list.
C6_Witness ==
    /\ command = "run"
    /\ sim_count = N
    /\ sim_i = N
    /\ ~acc_ret
    /\ Len(best_layouts) = top_layouts


(***************************************************************************)
(* Properties of prepare_quartad_list.                                     *)
(***************************************************************************)
\* The char with index p (0-based) of prep_string is mapped by the reference
\* position map.
PrepMapped(p) == IsAscii(prep_string[p + 1]) /\ PositionMapEntry(prep_ref, prep_string[p + 1]).some

\* The index just after the last unmapped char before index p, 0 if none.
PrepReset(p) == SetMax({0} \cup {q + 1 : q \in {q \in 0 .. (p - 1) : ~PrepMapped(q)}})

\* The chars from index max(p - 3, r) to index p, r the reset index of p.
PrepWindow(p) ==
    LET r == PrepReset(p)
    IN  SubSeq(prep_string, (IF p - 3 > r THEN p - 3 ELSE r) + 1, p + 1)

\* The mapped indexes among the first n.
PrepMappedBelow(n) == {p \in 0 .. (n - 1) : PrepMapped(p)}

\* One count for the window of every mapped index among the first n.
PrepExpected(n) ==
    [w \in {PrepWindow(p) : p \in PrepMappedBelow(n)} |->
        Cardinality({p \in PrepMappedBelow(n) : PrepWindow(p) = w})]

\* The sum of the counts of a quartad list.
RECURSIVE SumCounts(_, _)
SumCounts(counts, keys) ==
    IF keys = {} THEN 0
    ELSE LET w == CHOOSE x \in keys : TRUE
         IN  counts[w] + SumCounts(counts, keys \ {w})

\* Every char of prep_string takes one byte.
PrepSingleByte == \A k \in 1 .. Len(prep_string) : IsAscii(prep_string[k])

\* C11: on a corpus of one-byte chars, after the first n chars the quartad list
\* holds one count per mapped index p < n, on the chars from max(p - 3, r) to
\* p, and nothing else; so every key has 1 to 4 chars, all of them mapped, the
\* counts add up to the number of mapped indexes, and the call returns.  On
\* INIT_LAYOUT's map the finished list is the one run hands to simulate.
C11_OneCountPerMappedPosition ==
    (command = "prepare" /\ PrepSingleByte) =>
        /\ prep_ret # "Panic"
        /\ prep_counts = PrepExpected(prep_i)
        /\ \A w \in DOMAIN prep_counts :
              /\ Len(w) \in 1 .. 4
              /\ \A k \in 1 .. Len(w) : PositionMapEntry(prep_ref, w[k]).some
        /\ SumCounts(prep_counts, DOMAIN prep_counts)
              = Cardinality(PrepMappedBelow(prep_i))
        /\ (prep_ret = "Done" /\ prep_ref = INIT_LAYOUT) =>
              prep_counts = PrepareQuartadList(prep_string)

\* "aaaa" gives "a", "aa", "aaa" and "aaaa" once each.
C11_Witness ==
    /\ command = "prepare"
    /\ prep_ret = "Done"
    /\ prep_string = <<"a", "a", "a", "a">>
    /\ prep_counts = (<<"a">> :> 1) @@ (<<"a", "a">> :> 1)
                     @@ (<<"a", "a", "a">> :> 1) @@ (<<"a", "a", "a", "a">> :> 1)

\* A corpus where an unmapped char splits two mapped runs, finished.
C11_WitnessReset ==
    /\ command = "prepare"
    /\ prep_ret = "Done"
    /\ prep_string = <<"a", "=", "#", "a">>
    /\ prep_ref = INIT_LAYOUT
    /\ DOMAIN prep_counts = {<<"a">>, <<"a", "=">>}
    /\ prep_counts[<<"a">>] = 2

\* C12: with a char of more than one byte in the corpus the call still
\* returns, and the list is the one a single unmapped char in its place gives:
\* one count per mapped index, on the mapped chars that run up to it.
C12_MultiByteIsUnmapped ==
    command = "prepare" =>
        /\ prep_ret # "Panic"
        /\ prep_counts = PrepExpected(prep_i)

(***************************************************************************)
(* Properties of scoring an empty corpus.                                  *)
(***************************************************************************)
\* C13: with a corpus of length 0 no scaled penalty that is not a number is
\* computed and carried on: neither simulate's accepted_penalty, nor the
\* scaled penalty of a candidate, nor the dE handed to accept_transition, nor
\* the score of an entry of the best-layouts list is NaN.
C13_EmptyCorpusGuarded ==
    (command = "run" /\ corpus_len = 0) =>
        /\ accepted_penalty # NaN
        /\ scaled_penalty # NaN
        /\ acc_de # NaN
        /\ \A k \in 1 .. Len(best_layouts) : best_layouts[k].scaled_penalty # NaN

(***************************************************************************)
(* Properties of the detailed score.                                       *)
(***************************************************************************)
\* The sum of the 13 entries of a result vector.
RECURSIVE SumResult(_, _)
SumResult(result, k) == IF k = 0 THEN 0 ELSE result[k] + SumResult(result, k - 1)

\* C14: in detailed mode, for every layout and every quartad visited, what
\* penalize returns is the sum of what it adds to the 13 subtotals, so the
\* running total always equals the sum of the subtotals, and the returned
\* total does too; the total is the one the plain mode computes.
C14_SubtotalsSumToTotal ==
    command = "score" =>
        /\ SumResult(score_result, NumPenalties) = score_total
        /\ score_last # <<>> =>
              SumResult(score_last.result, NumPenalties) = score_last.total
        /\ score_ret # <<>> =>
              /\ SumResult(score_ret.result, NumPenalties) = score_ret.total
              /\ score_ret.total
                    = CalculatePenalty(quartads, corpus_len, score_layout).total

\* The detailed score of "uap" on INIT_LAYOUT has returned: base penalties, a
\* roll in, a roll out and the roll reversal, a negative subtotal among them.
C14_Witness ==
    /\ command = "score"
    /\ score_ret # <<>>
    /\ score_layout = INIT_LAYOUT
    /\ DOMAIN quartads = {<<"u">>, <<"u", "a">>, <<"u", "a", "p">>}
    /\ score_ret.result[7] = 20 * ONE
    /\ score_ret.result[10] > 0
    /\ score_ret.result[11] < 0
    /\ score_ret.total > 20 * ONE

\* The key press of the char k places before the last char of the quartad
\* visited last, on the layout that is scored.
LastKey(k) ==
    LET string == score_last.string
        c == string[Len(string) - k]
    IN  IF IsAscii(c) THEN PositionMapEntry(score_layout, c) ELSE KP_NONE

\* The quartad visited last has a current and a previous key on the layout.
LastHasTwoKeys ==
    /\ score_last # <<>>
    /\ Len(score_last.string) >= 2
    /\ LastKey(0).some
    /\ LastKey(1).some

\* Same hand, rows Top and Bottom in either order, fingers ring and pinky or
\* middle and ring in either order.
JumpOfNeighbours(curr, prev) ==
    /\ curr.hand = prev.hand
    /\ {curr.row, prev.row} = {"Top", "Bottom"}
    /\ {curr.finger, prev.finger} \in {{"Ring", "Pinky"}, {"Middle", "Ring"}}

\* Same hand, index finger after the middle or ring finger, from row `from'
\* (previous key) to row `to' (current key).
JumpToIndex(curr, prev, from, to) ==
    /\ curr.hand = prev.hand
    /\ curr.finger = "Index"
    /\ prev.finger \in {"Middle", "Ring"}
    /\ prev.row = from
    /\ curr.row = to

\* C16 as stated: 'long jump consecutive' adds 5.0 x count exactly when the
\* two keys are on one hand, on the top and bottom rows, with fingers ring and
\* pinky or middle and ring in either order, or the index finger after the
\* middle or ring finger going from the top row (previous key) to the bottom
\* row (current key); it adds nothing otherwise.
C16_LongJumpConsecutiveTopToBottom ==
    (command = "score" /\ score_last # <<>>) =>
        score_last.result[5] =
            IF /\ LastHasTwoKeys
               /\ \/ JumpOfNeighbours(LastKey(0), LastKey(1))
                  \/ JumpToIndex(LastKey(0), LastKey(1), "Top", "Bottom")
            THEN 5 * ONE * score_last.count
            ELSE 0

\* C16, amended: the same with the index finger case going from the bottom
\* row (previous key) to the top row (current key).
C16_LongJumpConsecutiveBottomToTop ==
    (command = "score" /\ score_last # <<>>) =>
        score_last.result[5] =
            IF /\ LastHasTwoKeys
               /\ \/ JumpOfNeighbours(LastKey(0), LastKey(1))
                  \/ JumpToIndex(LastKey(0), LastKey(1), "Bottom", "Top")
            THEN 5 * ONE * score_last.count
            ELSE 0

\* "vg" on INIT_LAYOUT, middle finger on the bottom row and then index finger
\* on the top row of the left hand, got the 5.0.
C16_Witness ==
    /\ command = "score"
    /\ score_layout = INIT_LAYOUT
    /\ score_last # <<>>
    /\ score_last.string = <<"v", "g">>
    /\ score_last.result[5] = 5 * ONE

(***************************************************************************)
(* Properties of the best-layouts list over its offers.                    *)
(***************************************************************************)
\* The place of the j-th offer when the offers are put in order of score,
\* equal scores (and scores without an ordering) in order of offer.
OfferRank(j) ==
    Cardinality({i \in 1 .. Len(offer_log) :
                    PartialCmp(offer_log[i].scaled_penalty,
                               offer_log[j].scaled_penalty) = "Less"})
    + Cardinality({i \in 1 .. (j - 1) :
                    PartialCmp(offer_log[i].scaled_penalty,
                               offer_log[j].scaled_penalty) \in {"Equal", "None"}})
    + 1

\* C17: after n offers to a list of capacity K the list holds min(K, n)
\* entries, and they are the offers of the first min(K, n) places in order of
\* score with equal scores in order of offer: the lowest scores, an earlier
\* offer before (and kept rather than) a later one of the same score.
C17_LowestKeptEarlierFirst ==
    command = "offers" =>
        /\ Len(best_layouts)
              = (IF Len(offer_log) < top_layouts THEN Len(offer_log) ELSE top_layouts)
        /\ \A j \in 1 .. Len(offer_log) :
              OfferRank(j) <= top_layouts => best_layouts[OfferRank(j)] = offer_log[j]

\* Four offers to a list of two: the two entries of the lowest score came
\* second and fourth and are kept in that order; the first and third offers,
\* of a higher score, were evicted.
C17_Witness ==
    /\ command = "offers"
    /\ top_layouts = 2
    /\ Len(offer_log) = 4
    /\ offer_log[1].scaled_penalty = 1
    /\ offer_log[2] = [layout |-> QWERTY_LAYOUT, total_penalty |-> 0, scaled_penalty |-> 0]
    /\ offer_log[3].scaled_penalty = 1
    /\ offer_log[4] = [layout |-> INIT_LAYOUT, total_penalty |-> 0, scaled_penalty |-> 0]
    /\ best_layouts = <<offer_log[2], offer_log[4]>>

(***************************************************************************)
(* Properties of the best-layouts list within simulate.                    *)
(***************************************************************************)
\* The lesser of two scaled penalties.
MinPenalty(a, b) == IF FLt(b, a) THEN b ELSE a

\* C18: within one run of simulate the list receives accepted candidates only.
\* It is empty when the run starts (the initial layout is not offered); an
\* iteration that rejects its candidate leaves the list alone; an iteration
\* that accepts offers that candidate, and the front score becomes the lesser
\* of the front score before and the candidate's score, which makes it the
\* least score of all candidates accepted so far in the run (the capacity is
\* at least 1).  Every entry's score is the scaled penalty of its layout.
C18_OnlyAcceptedFrontIsMin ==
    /\ [](command = "run" =>
            /\ top_layouts >= 1
            /\ sim_count = 0 => best_layouts = <<>>
            /\ \A k \in 1 .. Len(best_layouts) :
                  best_layouts[k].scaled_penalty
                     = CalculatePenalty(quartads, corpus_len,
                                        best_layouts[k].layout).scaled)
    /\ [][(command = "run" /\ sim_count' = sim_count + 1) =>
            IF acc_ret'
            THEN /\ offered' = <<[layout |-> curr_layout',
                                  total_penalty |-> offered'[1].total_penalty,
                                  scaled_penalty |-> scaled_penalty']>>
                 /\ best_layouts' # <<>>
                 /\ best_layouts'[1].scaled_penalty
                       = IF best_layouts = <<>> THEN scaled_penalty'
                         ELSE MinPenalty(best_layouts[1].scaled_penalty,
                                         scaled_penalty')
            ELSE /\ offered' = <<>>
                 /\ best_layouts' = best_layouts]_vars

\* A candidate worse than the front entry was accepted and offered, and the
\* front entry is still the better one accepted before it.
C18_Witness ==
    /\ command = "run"
    /\ acc_ret
    /\ offered # <<>>
    /\ best_layouts # <<>>
    /\ FLt(best_layouts[1].scaled_penalty, scaled_penalty)
    /\ best_layouts[1].layout # curr_layout

(***************************************************************************)
(* Properties of refine.                                                   *)
(***************************************************************************)
\* The layouts one swap of two swappable positions away from a layout.
Neighbours(layout) ==
    {LayoutSwap(layout, i, j) : i \in Swappable, j \in Swappable} \ {layout}

\* C15: every round of refine enumerates around the best layout found so far
\* (the generator's base is curr_layout), and when the loop has ended no
\* layout one swap away from the winner curr_layout has a scaled penalty
\* strictly below the winner's.
C15_RefineClimbsToLocalOptimum ==
    (command = "refine" /\ num_swaps = 1) =>
        /\ ref_state = "Enumerating" => orig_layout = curr_layout
        /\ ref_state = "Broke" =>
              \A l \in Neighbours(curr_layout) :
                 ~FLt(CalculatePenalty(quartads, corpus_len, l).scaled, curr_penalty)

\* C20: with top_layouts >= 1 the loop of refine does not go past its second
\* round: no round ends in a panic, and the second round, if there is one,
\* ends with the break; with top_layouts = 0 the first round ends in the
\* unwrap of an empty list.
C20_RefineEndsWithinTwoRounds ==
    command = "refine" =>
        /\ top_layouts >= 1 =>
              /\ ref_state # "Panic"
              /\ ref_round <= 2
              /\ ref_round = 2 => ref_state = "Broke"
        /\ (top_layouts = 0 /\ ref_round >= 1) =>
              (ref_round = 1 /\ ref_state = "Panic")

\* The same for the corpora that are not empty.
RefineEndsOnText ==
    corpus_len > 0 => C20_RefineEndsWithinTwoRounds

\* On the text refine has ended in its second round, on a layout other than
\* the one it started from.
RefineEndedOnText ==
    /\ command = "refine"
    /\ corpus_len > 0
    /\ ref_state = "Broke"
    /\ ref_round = 2
    /\ curr_layout # ref_init_layout

(***************************************************************************)
(* Properties of the generator's indexes.                                  *)
(***************************************************************************)
\* The positions a swap_idx makes next() swap.
SwapPositions(sidx) ==
    {sidx[k] + LAYOUT_MASK_SWAP_OFFSETS[sidx[k]] : k \in 1 .. Len(sidx)}

\* C19: at every depth d >= 1, in every state: no call has panicked, every
\* entry of swap_idx is in 0 .. 30, after a call the first entry is above
\* the second, and every entry that has been incremented (is not 0) is below
\* the entry before it, so the entries decrease strictly from the first slot
\* to the last incremented one and the positions swapped are never 10 or 32;
\* None is returned in the end; and a call after a None returns None and
\* leaves swap_idx as it is.
C19_IndexesInRangeAndExhausted ==
    /\ []((command = "permute" /\ Depth >= 1) =>
            /\ perm_ret \in {"NotCalled", "Some", "None"}
            /\ \A k \in 1 .. Len(swap_idx) : swap_idx[k] \in 0 .. 30
            /\ perm_ret # "NotCalled" => swap_idx[1] > swap_idx[2]
            /\ \A k \in 2 .. Len(swap_idx) :
                  swap_idx[k] # 0 => swap_idx[k - 1] > swap_idx[k]
            /\ SwapPositions(swap_idx) \subseteq Swappable)
    /\ [][(command = "permute" /\ Depth >= 1 /\ perm_ret = "None") =>
             (perm_ret' = "None" /\ swap_idx' = swap_idx)]_vars
    /\ ((command = "permute" /\ Depth >= 1) => <>(perm_ret = "None"))

\* The depth-2 generator has returned None, its indexes at their last values.
C19_Witness ==
    /\ command = "permute"
    /\ Depth = 2
    /\ perm_ret = "None"
    /\ swap_idx = <<30, 29, 28, 27>>
    /\ perm_count = 465 + 31465
=============================================================================
